---- MODULE Spec2Model ----
(***************************************************************************)
(* A model of the frame-selection and thumbnail pipeline:                  *)
(*   - ThumbnailExtractionJob's status machine   (models/...job.py)         *)
(*   - AsyncWorker and thumbnail_extraction_worker (gui/async_worker.py)   *)
(*   - DiversitySelector.select_diverse_frames   (services/diversity...)   *)
(*   - ThumbnailExtractor.save_thumbnails_batch  (services/thumbnail...)   *)
(*   - FaceDetector.detect_faces_batch           (services/face_detector)  *)
(*   - VideoFile status and VideoProcessor.extract_frames                  *)
(* Each component has its own specification; the variables of the other    *)
(* components stay at their initial value under it.                        *)
(***************************************************************************)
EXTENDS Integers, Sequences, FiniteSets, TLC

VARIABLES job, jobLast,          \* ThumbnailExtractionJob and the last call made on it
          w, thr, caller, notes, \* AsyncWorker, its task threads, the caller thread, callbacks delivered
          selection,             \* one call of DiversitySelector.select_diverse_frames
          batch,                 \* one call of ThumbnailExtractor.save_thumbnails_batch
          detection,             \* one call of FaceDetector.detect_faces_batch
          video, run,            \* a VideoFile and the extract_frames runs over it
          progress,
          sampling,
          thumb,
          saving,
          settings,
          scene,
          scoring,
          primary

jobVars == <<job, jobLast>>
workerVars == <<w, thr, caller, notes>>
selectVars == <<selection>>
saveVars == <<batch>>
detectVars == <<detection>>
videoVars == <<video, run>>
progressVars == <<progress>>
samplingVars == <<sampling>>
thumbVars == <<thumb>>
savingVars == <<saving>>
settingsVars == <<settings>>
sceneVars == <<scene>>
scoringVars == <<scoring>>
primaryVars == <<primary>>
vars == <<job, jobLast, w, thr, caller, notes, selection, batch, detection, video, run, progress, sampling, thumb, saving, settings, scene, scoring, primary>>

(***************************************************************************)
(* ThumbnailExtractionJob                                                  *)
(***************************************************************************)

\* JobStatus members the job's methods read or write (QUEUED is never assigned).
JobStatus == {"CREATED", "QUEUED", "RUNNING", "PAUSED", "COMPLETED", "FAILED", "CANCELLED"}

JobPhase == {"INITIALIZING", "EXTRACTING_FRAMES", "DETECTING_FACES", "SELECTING_FRAMES",
             "GENERATING_THUMBNAILS", "SAVING_FILES", "FINALIZING"}

\* is_completed: the three statuses the job treats as finished.
is_completed(st) == st \in {"COMPLETED", "FAILED", "CANCELLED"}

\* A freshly constructed job (dataclass defaults).
NewJob ==
    [status |-> "CREATED", phase |-> "INITIALIZING", message |-> "",
     started_at |-> FALSE, completed_at |-> FALSE, error_message |-> FALSE,
     percentage |-> 0]

NoCall == [op |-> "none", before |-> "CREATED", raised |-> FALSE]

JobInit ==
    /\ job = NewJob
    /\ jobLast = NoCall

\* The condition under which each method goes on instead of raising ValueError.
start_allowed(st) == st = "CREATED"

pause_allowed_anywhere(st) == TRUE
pause_allowed(st) == st = "RUNNING"

resume_allowed(st) == st = "PAUSED"

complete_allowed(st) == st \in {"RUNNING", "PAUSED"}

\* fail() has no status check at all.
fail_allowed(st) == TRUE

cancel_allowed(st) == st \notin {"COMPLETED", "FAILED"}

\* The variables of the other components, which no job action changes.
JobFrame == UNCHANGED <<workerVars, selectVars, saveVars, detectVars, videoVars, progressVars, samplingVars, thumbVars, savingVars, settingsVars, sceneVars, scoringVars, primaryVars>>

Called(op, ok) ==
    /\ jobLast' = [op |-> op, before |-> job.status, raised |-> ~ok]
    /\ JobFrame

Job_start ==
    LET ok == start_allowed(job.status) IN
    /\ Called("start", ok)
    /\ job' = IF ok
              THEN [job EXCEPT !.status = "RUNNING", !.started_at = TRUE,
                               !.phase = "INITIALIZING", !.message = "starting"]
              ELSE job

Job_pause ==
    LET ok == pause_allowed(job.status) IN
    /\ Called("pause", ok)
    /\ job' = IF ok
              THEN [job EXCEPT !.status = "PAUSED", !.message = "paused"]
              ELSE job

Job_resume ==
    LET ok == resume_allowed(job.status) IN
    /\ Called("resume", ok)
    /\ job' = IF ok
              THEN [job EXCEPT !.status = "RUNNING", !.message = "resuming"]
              ELSE job

Job_complete ==
    LET ok == complete_allowed(job.status) IN
    /\ Called("complete", ok)
    /\ job' = IF ok
              THEN [job EXCEPT !.status = "COMPLETED", !.completed_at = TRUE,
                               !.phase = "FINALIZING", !.percentage = 100,
                               !.message = "completed"]
              ELSE job

Job_fail ==
    LET ok == fail_allowed(job.status) IN
    /\ Called("fail", ok)
    /\ job' = IF ok
              THEN [job EXCEPT !.status = "FAILED", !.completed_at = TRUE,
                               !.error_message = TRUE, !.message = "failed"]
              ELSE job

Job_cancel ==
    LET ok == cancel_allowed(job.status) IN
    /\ Called("cancel", ok)
    /\ job' = IF ok
              THEN [job EXCEPT !.status = "CANCELLED", !.completed_at = TRUE,
                               !.message = "cancelled"]
              ELSE job

\* update_progress(phase=..., message=...): no status check, status untouched.
Job_update_progress ==
    \E ph \in JobPhase :
        /\ job' = [job EXCEPT !.phase = ph, !.message = "progress"]
        /\ jobLast' = [op |-> "update_progress", before |-> job.status, raised |-> FALSE]
        /\ JobFrame

JobNext ==
    \/ Job_start
    \/ Job_pause
    \/ Job_resume
    \/ Job_complete
    \/ Job_fail
    \/ Job_cancel
    \/ Job_update_progress

(***************************************************************************)
(* AsyncWorker and the pipeline task thumbnail_extraction_worker           *)
(*                                                                         *)
(* The caller thread issues start/cancel/pause/resume one call at a time;  *)
(* each start() launches one task thread running _worker_wrapper around    *)
(* thumbnail_extraction_worker.  Steps of different threads interleave at  *)
(* every read or write of the worker's shared fields.                      *)
(***************************************************************************)

\* Most start() calls followed in one behaviour.
MaxStarts == 2
\* Frames the sampled video yields in one run.
NumFrames == 2
\* user_settings.thumbnail_count of the run.
ThumbnailCount == 2

Threads == 1..MaxStarts

WorkerStatus == {"IDLE", "RUNNING", "PAUSED", "CANCELLED", "COMPLETED", "ERROR"}

\* AsyncWorker.__init__: thread = 0 stands for None, otherwise the latest thread started.
NewWorker ==
    [status |-> "IDLE", cancel_event |-> FALSE, pause_event |-> FALSE,
     result |-> "None", error |-> "None", thread |-> 0]

\* A task thread: pc is its position; n the frames sampled, i the loop index,
\* faces the frames kept by the face loop, sel the frames selected, made the
\* thumbnails composed, ret what the task function returned.
\* late counts the frames the task finished processing (sampled, face-detected
\* or composed) at a moment when the cancellation flag was already set.
Unborn ==
    [pc |-> "unborn", n |-> 0, i |-> 0, faces |-> 0, sel |-> 0, made |-> 0,
     ret |-> "none", late |-> 0]

Born == [Unborn EXCEPT !.pc = "sample"]

IsAlive(t) == t \in Threads /\ thr[t].pc \notin {"unborn", "dead"}

Idle == [pc |-> "idle", op |-> "none", at |-> "IDLE", ret |-> FALSE]

WorkerInit ==
    /\ w = NewWorker
    /\ thr = [t \in Threads |-> Unborn]
    /\ caller = Idle
    /\ notes = [t \in Threads |-> <<>>]

\* The variables of the other components, which no worker action changes.
WorkerFrame == UNCHANGED <<jobVars, selectVars, saveVars, detectVars, videoVars, progressVars, samplingVars, thumbVars, savingVars, settingsVars, sceneVars, scoringVars, primaryVars>>

Returned(op, ret) == caller' = [pc |-> "idle", op |-> op, at |-> w.status, ret |-> ret]

\* The callback on_completed / on_error / on_cancelled is delivered to run r.
Notify(r, kind) == notes' = [notes EXCEPT ![r] = Append(@, kind)]

------------------------------------------------------------------------------
\* Caller thread

\* AsyncWorker.start refused: the worker is RUNNING.
Worker_start_refused ==
    /\ caller.pc = "idle"
    /\ w.status = "RUNNING"
    /\ Returned("start", FALSE)
    /\ UNCHANGED <<w, thr, notes>>
    /\ WorkerFrame

\* Which statuses let start() go on to _reset_state and a new thread.
start_accepts(st) == st /= "RUNNING"

\* AsyncWorker.start accepted: _reset_state, a new thread, status RUNNING.
\* (Thread creation itself is taken to succeed.)
Worker_start ==
    /\ caller.pc = "idle"
    /\ start_accepts(w.status)
    /\ w.thread < MaxStarts
    /\ LET t == w.thread + 1 IN
         /\ w' = [status |-> "RUNNING", cancel_event |-> FALSE, pause_event |-> FALSE,
                  result |-> "None", error |-> "None", thread |-> t]
         /\ thr' = [thr EXCEPT ![t] = Born]
    /\ Returned("start", TRUE)
    /\ UNCHANGED notes
    /\ WorkerFrame

\* cancel(): if self.status != WorkerStatus.RUNNING: return False
cancel_accepts(st) == st = "RUNNING"

\* AsyncWorker.cancel, the status check at its top.
Worker_cancel_check ==
    /\ caller.pc = "idle"
    /\ IF cancel_accepts(w.status)
       THEN caller' = [pc |-> "cancel_set", op |-> "cancel", at |-> w.status, ret |-> FALSE]
       ELSE Returned("cancel", FALSE)
    /\ UNCHANGED <<w, thr, notes>>
    /\ WorkerFrame

\* AsyncWorker.cancel: self._cancel_event.set()
Worker_cancel_set ==
    /\ caller.pc = "cancel_set"
    /\ w' = [w EXCEPT !.cancel_event = TRUE]
    /\ caller' = [caller EXCEPT !.pc = "cancel_join"]
    /\ UNCHANGED <<thr, notes>>
    /\ WorkerFrame

\* AsyncWorker.cancel: the thread is not (or no longer) alive, or join returned
\* because it ended: go on to mark the worker CANCELLED.
Worker_cancel_joined ==
    /\ caller.pc = "cancel_join"
    /\ ~IsAlive(w.thread)
    /\ caller' = [caller EXCEPT !.pc = "cancel_finish"]
    /\ UNCHANGED <<w, thr, notes>>
    /\ WorkerFrame

\* AsyncWorker.cancel: join(timeout=5.0) ran out with the thread still alive.
Worker_cancel_timeout ==
    /\ caller.pc = "cancel_join"
    /\ IsAlive(w.thread)
    /\ caller' = [caller EXCEPT !.pc = "idle", !.ret = FALSE]
    /\ UNCHANGED <<w, thr, notes>>
    /\ WorkerFrame

\* AsyncWorker.cancel: status = CANCELLED, on_cancelled(), return True.
Worker_cancel_finish ==
    /\ caller.pc = "cancel_finish"
    /\ w' = [w EXCEPT !.status = "CANCELLED"]
    /\ Notify(w.thread, "cancelled")
    /\ caller' = [caller EXCEPT !.pc = "idle", !.ret = TRUE]
    /\ UNCHANGED thr
    /\ WorkerFrame

\* AsyncWorker.pause, the status check at its top.
Worker_pause_check ==
    /\ caller.pc = "idle"
    /\ IF w.status = "RUNNING"
       THEN caller' = [pc |-> "pause_set", op |-> "pause", at |-> w.status, ret |-> FALSE]
       ELSE Returned("pause", FALSE)
    /\ UNCHANGED <<w, thr, notes>>
    /\ WorkerFrame

\* AsyncWorker.pause: status = PAUSED, self._pause_event.set(), return True.
\* No lock is held between the check and these writes.
Worker_pause_set ==
    /\ caller.pc = "pause_set"
    /\ w' = [w EXCEPT !.status = "PAUSED", !.pause_event = TRUE]
    /\ caller' = [caller EXCEPT !.pc = "idle", !.ret = TRUE]
    /\ UNCHANGED <<thr, notes>>
    /\ WorkerFrame

\* AsyncWorker.resume, the status check at its top.
Worker_resume_check ==
    /\ caller.pc = "idle"
    /\ IF w.status = "PAUSED"
       THEN caller' = [pc |-> "resume_set", op |-> "resume", at |-> w.status, ret |-> FALSE]
       ELSE Returned("resume", FALSE)
    /\ UNCHANGED <<w, thr, notes>>
    /\ WorkerFrame

\* AsyncWorker.resume: status = RUNNING, self._pause_event.clear(), return True.
Worker_resume_set ==
    /\ caller.pc = "resume_set"
    /\ w' = [w EXCEPT !.status = "RUNNING", !.pause_event = FALSE]
    /\ caller' = [caller EXCEPT !.pc = "idle", !.ret = TRUE]
    /\ UNCHANGED <<thr, notes>>
    /\ WorkerFrame

------------------------------------------------------------------------------
\* Task thread t: thumbnail_extraction_worker inside _worker_wrapper

Step(t, rec) == thr' = [thr EXCEPT ![t] = rec]

\* check_cancellation
check_cancellation == w.cancel_event

\* wait_if_paused returns once the pause flag is clear or the cancellation flag is set.
wait_if_paused_returns == ~w.pause_event \/ w.cancel_event

\* The task function returned `ret`: on to the wrapper's check of the flag.
TaskReturns(t, ret) ==
    Step(t, [thr[t] EXCEPT !.pc = "wrap_check", !.ret = ret, !.n = 0, !.i = 0,
                           !.faces = 0, !.sel = 0, !.made = 0])

\* The task function raised e: _worker_wrapper's except branch keeps e, sets ERROR and
\* calls on_error, whatever the cancellation flag says.
TaskRaises(t, e) ==
    /\ Step(t, [thr[t] EXCEPT !.pc = "dead", !.ret = e, !.n = 0, !.i = 0,
                              !.faces = 0, !.sel = 0, !.made = 0])
    /\ w' = [w EXCEPT !.status = "ERROR", !.error = e]
    /\ Notify(t, "error")
    /\ UNCHANGED caller

\* One iteration of extract_frames' loop driven by list(...): one more frame.
\* Neither extract_frames nor list() looks at the cancellation flag.
Task_sample_frame(t) ==
    /\ thr[t].pc = "sample"
    /\ thr[t].n < NumFrames
    /\ Step(t, [thr[t] EXCEPT !.n = @ + 1,
                              !.late = @ + (IF w.cancel_event THEN 1 ELSE 0)])
    /\ UNCHANGED <<w, caller, notes>>
    /\ WorkerFrame

\* extract_frames raised (VideoProcessingError): the task raises.
Task_sample_raises(t) ==
    /\ thr[t].pc = "sample"
    /\ TaskRaises(t, "VideoProcessingError")
    /\ WorkerFrame

\* The frame list is complete: the first check_cancellation of the task.
Task_sample_done(t) ==
    /\ thr[t].pc = "sample"
    /\ thr[t].n = NumFrames
    /\ IF check_cancellation
       THEN TaskReturns(t, "empty")
       ELSE Step(t, [thr[t] EXCEPT !.pc = "face_top", !.i = 0, !.faces = 0])
    /\ UNCHANGED <<w, caller, notes>>
    /\ WorkerFrame

\* Top of a face-loop iteration: wait_if_paused (blocks while paused and not cancelled).
Task_face_wait(t) ==
    /\ thr[t].pc = "face_top"
    /\ thr[t].i < thr[t].n
    /\ wait_if_paused_returns
    /\ Step(t, [thr[t] EXCEPT !.pc = "face_check"])
    /\ UNCHANGED <<w, caller, notes>>
    /\ WorkerFrame

\* Face loop: if worker.check_cancellation(): return []
Task_face_check(t) ==
    /\ thr[t].pc = "face_check"
    /\ IF check_cancellation
       THEN TaskReturns(t, "empty")
       ELSE Step(t, [thr[t] EXCEPT !.pc = "face_detect"])
    /\ UNCHANGED <<w, caller, notes>>
    /\ WorkerFrame

\* Face loop: detect_faces(frame) found faces or not.
Task_face_detect(t) ==
    /\ thr[t].pc = "face_detect"
    /\ \E found \in BOOLEAN :
         Step(t, [thr[t] EXCEPT !.pc = "face_top", !.i = @ + 1,
                                !.faces = @ + (IF found THEN 1 ELSE 0),
                                !.late = @ + (IF w.cancel_event THEN 1 ELSE 0)])
    /\ UNCHANGED <<w, caller, notes>>
    /\ WorkerFrame

\* Face loop: detect_faces(frame) raised; the loop has no handler.
Task_face_raises(t) ==
    /\ thr[t].pc = "face_detect"
    /\ TaskRaises(t, "FaceDetectionError")
    /\ WorkerFrame

\* The task returns an empty list when no frame has a face.
Task_no_faces_returns_empty(t) ==
    /\ thr[t].pc = "face_top"
    /\ thr[t].i = thr[t].n
    /\ thr[t].faces = 0
    /\ TaskReturns(t, "empty")
    /\ UNCHANGED <<w, caller, notes>>
    /\ WorkerFrame

\* After the face loop: no frame with a face raises NoFacesDetectedError.
Task_no_faces(t) ==
    /\ thr[t].pc = "face_top"
    /\ thr[t].i = thr[t].n
    /\ thr[t].faces = 0
    /\ TaskRaises(t, "NoFacesDetectedError")
    /\ WorkerFrame

Min(a, b) == IF a <= b THEN a ELSE b

\* After the face loop: select_diverse_frames(frames_with_faces, thumbnail_count).
Task_select(t) ==
    /\ thr[t].pc = "face_top"
    /\ thr[t].i = thr[t].n
    /\ thr[t].faces > 0
    /\ Step(t, [thr[t] EXCEPT !.pc = "select_check", !.n = 0, !.i = 0, !.faces = 0,
                              !.sel = Min(ThumbnailCount, thr[t].faces)])
    /\ UNCHANGED <<w, caller, notes>>
    /\ WorkerFrame

\* select_diverse_frames raised (DiversityCalculationError).
Task_select_raises(t) ==
    /\ thr[t].pc = "face_top"
    /\ thr[t].i = thr[t].n
    /\ thr[t].faces > 0
    /\ TaskRaises(t, "DiversityCalculationError")
    /\ WorkerFrame

\* After selection: if worker.check_cancellation(): return []
Task_select_check(t) ==
    /\ thr[t].pc = "select_check"
    /\ IF check_cancellation
       THEN TaskReturns(t, "empty")
       ELSE Step(t, [thr[t] EXCEPT !.pc = "gen_top", !.i = 0, !.made = 0])
    /\ UNCHANGED <<w, caller, notes>>
    /\ WorkerFrame

\* Top of a composing-loop iteration: wait_if_paused.
Task_gen_wait(t) ==
    /\ thr[t].pc = "gen_top"
    /\ thr[t].i < thr[t].sel
    /\ wait_if_paused_returns
    /\ Step(t, [thr[t] EXCEPT !.pc = "gen_check"])
    /\ UNCHANGED <<w, caller, notes>>
    /\ WorkerFrame

\* Composing loop: if worker.check_cancellation(): return []
Task_gen_check(t) ==
    /\ thr[t].pc = "gen_check"
    /\ IF check_cancellation
       THEN TaskReturns(t, "empty")
       ELSE Step(t, [thr[t] EXCEPT !.pc = "gen_make"])
    /\ UNCHANGED <<w, caller, notes>>
    /\ WorkerFrame

\* Composing loop: generate_thumbnail(frame, user_settings) returned a thumbnail.
Task_gen_make(t) ==
    /\ thr[t].pc = "gen_make"
    /\ Step(t, [thr[t] EXCEPT !.pc = "gen_top", !.i = @ + 1, !.made = @ + 1,
                              !.late = @ + (IF w.cancel_event THEN 1 ELSE 0)])
    /\ UNCHANGED <<w, caller, notes>>
    /\ WorkerFrame

\* Composing loop: generate_thumbnail raised; the loop has no handler.
Task_gen_raises(t) ==
    /\ thr[t].pc = "gen_make"
    /\ TaskRaises(t, "ThumbnailGenerationError")
    /\ WorkerFrame

\* End of the composing loop: return thumbnails.
Task_return_thumbnails(t) ==
    /\ thr[t].pc = "gen_top"
    /\ thr[t].i = thr[t].sel
    /\ TaskReturns(t, "thumbnails")
    /\ UNCHANGED <<w, caller, notes>>
    /\ WorkerFrame

\* _worker_wrapper: if not self._cancel_event.is_set(): ... (the read of the flag)
Wrapper_check(t) ==
    /\ thr[t].pc = "wrap_check"
    /\ Step(t, [thr[t] EXCEPT !.pc = IF w.cancel_event THEN "dead" ELSE "wrap_complete"])
    /\ UNCHANGED <<w, caller, notes>>
    /\ WorkerFrame

\* _worker_wrapper: result, status = COMPLETED, on_completed(...)
Wrapper_complete(t) ==
    /\ thr[t].pc = "wrap_complete"
    /\ w' = [w EXCEPT !.status = "COMPLETED", !.result = thr[t].ret]
    /\ Notify(t, "completed")
    /\ Step(t, [thr[t] EXCEPT !.pc = "dead"])
    /\ UNCHANGED caller
    /\ WorkerFrame

CallerNext ==
    \/ Worker_start_refused
    \/ Worker_start
    \/ Worker_cancel_check
    \/ Worker_cancel_set
    \/ Worker_cancel_joined
    \/ Worker_cancel_timeout
    \/ Worker_cancel_finish
    \/ Worker_pause_check
    \/ Worker_pause_set
    \/ Worker_resume_check
    \/ Worker_resume_set

TaskNext(t) ==
    \/ Task_sample_frame(t)
    \/ Task_sample_raises(t)
    \/ Task_sample_done(t)
    \/ Task_face_wait(t)
    \/ Task_face_check(t)
    \/ Task_face_detect(t)
    \/ Task_face_raises(t)
    \/ Task_no_faces(t)
    \/ Task_select(t)
    \/ Task_select_raises(t)
    \/ Task_select_check(t)
    \/ Task_gen_wait(t)
    \/ Task_gen_check(t)
    \/ Task_gen_make(t)
    \/ Task_gen_raises(t)
    \/ Task_return_thumbnails(t)
    \/ Wrapper_check(t)
    \/ Wrapper_complete(t)

WorkerNext == CallerNext \/ \E t \in Threads : TaskNext(t)

\* A single run of the worker: the caller starts it once, then pauses, resumes
\* and cancels it as it likes.
Worker_start_once ==
    /\ w.thread = 0
    /\ Worker_start

OneRunNext ==
    \/ Worker_start_refused
    \/ Worker_start_once
    \/ Worker_cancel_check
    \/ Worker_cancel_set
    \/ Worker_cancel_joined
    \/ Worker_cancel_timeout
    \/ Worker_cancel_finish
    \/ Worker_pause_check
    \/ Worker_pause_set
    \/ Worker_resume_check
    \/ Worker_resume_set
    \/ \E t \in Threads : TaskNext(t)

(***************************************************************************)
(* DiversitySelector.select_diverse_frames                                 *)
(*                                                                         *)
(* A frame list is 1..n, frame i standing for the i-th Frame object of the *)
(* list (the frames of a list are distinct objects with distinct           *)
(* frame_number).  Scores and the weight are kept in tenths, a combined    *)
(* score in hundredths.  What the image analysis computes (the diversity   *)
(* score of a frame, the cluster K-means puts a candidate in, whether the  *)
(* clustering raises) is drawn from every value the code admits.           *)
(***************************************************************************)
MaxSelFrames == 3
MaxSelCount == 2

Scores == {0, 10}
Weights == {-1, 0, 7, 10, 11}

NoSelection ==
    [pc |-> "idle", n |-> 0, count |-> 0, weight |-> 0, quality |-> <<>>,
     diversity |-> <<>>, path |-> "none", out |-> "none", result |-> <<>>]

SelectInit == selection = NoSelection

SelectFrame == UNCHANGED <<jobVars, workerVars, saveVars, detectVars, videoVars, progressVars, samplingVars, thumbVars, savingVars, settingsVars, sceneVars, scoringVars, primaryVars>>

\* The vectors calculate_diversity_scores can return for n frames.
calculate_diversity_scores(n) ==
    IF n < 2 THEN {[i \in 1..n |-> 10]} ELSE [1..n -> Scores]

\* total_score of every frame: diversity * weight + quality * (1 - weight)
total_scores(q, d, wt, n) ==
    [i \in 1..n |-> d[i] * wt + q[i] * (10 - wt)]

\* combined_scores.sort(key=score, reverse=True): the sort is stable, so equal
\* scores keep the order of the list.  The result lists the original indices.
sort_position(sc, n, i) ==
    1 + Cardinality({j \in 1..n : sc[j] > sc[i] \/ (sc[j] = sc[i] /\ j < i)})

sorted_indices(sc, n) ==
    [k \in 1..n |-> CHOOSE i \in 1..n : sort_position(sc, n, i) = k]

\* frame_score = scored_frames[original_idx][0] with original_idx =
\* candidate_indices[idx]: the sorted list is indexed with the candidate's
\* index in the unsorted list.
frame_score(sc, sorted, idx) == sc[sorted[sorted[idx]]]

\* The candidate picked for a non-empty cluster: the first member, in index
\* order, whose frame_score no other member exceeds.
best_idx_in_cluster(sc, sorted, members) ==
    CHOOSE k \in members :
        \A m \in members :
            \/ frame_score(sc, sorted, m) < frame_score(sc, sorted, k)
            \/ (frame_score(sc, sorted, m) = frame_score(sc, sorted, k) /\ m >= k)

\* selected_frames after the loop over cluster ids c..n_clusters-1.
RECURSIVE cluster_representatives(_, _, _, _, _, _)
cluster_representatives(sc, sorted, labels, cc, nc, c) ==
    IF c >= nc THEN <<>>
    ELSE LET members == {k \in 1..cc : labels[k] = c}
             rest == cluster_representatives(sc, sorted, labels, cc, nc, c + 1)
         IN  IF members = {} THEN rest
             ELSE <<sorted[best_idx_in_cluster(sc, sorted, members)]>> \o rest

NeverInSeq(x, s) == FALSE

\* x in s
InSeq(x, s) == \E k \in 1..Len(s) : s[k] = x

\* One pass of "for candidate in candidates", from candidate k on.
RECURSIVE fill_pass(_, _, _, _, _)
fill_pass(sel, sorted, cc, count, k) ==
    IF k > cc THEN sel
    ELSE IF InSeq(sorted[k], sel) THEN fill_pass(sel, sorted, cc, count, k + 1)
    ELSE LET more == Append(sel, sorted[k])
         IN  IF Len(more) >= count THEN more
             ELSE fill_pass(more, sorted, cc, count, k + 1)

RECURSIVE fill_loop(_, _, _, _)
fill_loop(sel, sorted, cc, count) ==
    IF Len(sel) < count /\ Len(sel) < cc
    THEN fill_loop(fill_pass(sel, sorted, cc, count, 1), sorted, cc, count)
    ELSE sel

no_additional_selection(sel, sorted, cc, count) == sel

\* while len(selected_frames) < count and len(selected_frames) < len(candidates)
additional_selection(sel, sorted, cc, count) == fill_loop(sel, sorted, cc, count)

Prefix(s, k) == SubSeq(s, 1, Min(k, Len(s)))

\* Whether the cluster representatives alone fall short of count, so that the
\* while loop adds candidates.
fill_needed(sc, n, count, labels) ==
    LET cc == Min(n, count * 2)
    IN  Len(cluster_representatives(sc, sorted_indices(sc, n), labels, cc,
                                    Min(count, cc), 0)) < count

\* The clustering path of _select_with_clustering for one labelling.
clustering_selection(sc, n, count, labels) ==
    LET sorted == sorted_indices(sc, n)
        cc == Min(n, count * 2)
        nc == Min(count, cc)
        reps == cluster_representatives(sc, sorted, labels, cc, nc, 0)
    IN  Prefix(additional_selection(reps, sorted, cc, count), count)

\* The except branch of _select_with_clustering: the top frames by score.
fallback_selection(sc, n, count) ==
    Prefix(sorted_indices(sc, n), Min(count, n))

weight_unchecked(wt) == TRUE

\* 0.0 <= diversity_weight <= 1.0
weight_in_range(wt) == 0 <= wt /\ wt <= 10

Selected(n, count, wt, q, d, path, out, result) ==
    /\ selection' = [pc |-> "done", n |-> n, count |-> count, weight |-> wt,
                     quality |-> q, diversity |-> d, path |-> path,
                     out |-> out, result |-> result]
    /\ SelectFrame

\* if count <= 0: raise InvalidCountError
Select_invalid_count ==
    /\ selection.pc = "idle"
    /\ \E n \in 0..MaxSelFrames, count \in 0..MaxSelCount, wt \in Weights :
        \E q \in [1..n -> Scores] :
            /\ count <= 0
            /\ Selected(n, count, wt, q, <<>>, "none", "InvalidCountError", <<>>)

\* if not (0.0 <= diversity_weight <= 1.0): raise InvalidWeightError
Select_invalid_weight ==
    /\ selection.pc = "idle"
    /\ \E n \in 0..MaxSelFrames, count \in 0..MaxSelCount, wt \in Weights :
        \E q \in [1..n -> Scores] :
            /\ count > 0
            /\ ~weight_in_range(wt)
            /\ Selected(n, count, wt, q, <<>>, "none", "InvalidWeightError", <<>>)

\* if len(frames) == 0: raise InsufficientFramesError
Select_no_frames ==
    /\ selection.pc = "idle"
    /\ \E count \in 0..MaxSelCount, wt \in Weights :
        /\ count > 0
        /\ weight_in_range(wt)
        /\ Selected(0, count, wt, <<>>, <<>>, "none", "InsufficientFramesError", <<>>)

\* if len(frames) <= count: return frames.copy()
Select_all ==
    /\ selection.pc = "idle"
    /\ \E n \in 0..MaxSelFrames, count \in 0..MaxSelCount, wt \in Weights :
        \E q \in [1..n -> Scores] :
            /\ count > 0
            /\ weight_in_range(wt)
            /\ n > 0
            /\ n <= count
            /\ Selected(n, count, wt, q, <<>>, "copy", "returned", [i \in 1..n |-> i])

\* More frames than asked for, and K-means labels every candidate.
Select_clustering ==
    /\ selection.pc = "idle"
    /\ \E n \in 0..MaxSelFrames, count \in 0..MaxSelCount, wt \in Weights :
        \E q \in [1..n -> Scores], d \in calculate_diversity_scores(n) :
            /\ count > 0
            /\ weight_in_range(wt)
            /\ n > count
            /\ \E labels \in [1..Min(n, count * 2) -> 0..(count - 1)] :
                   Selected(n, count, wt, q, d,
                            IF fill_needed(total_scores(q, d, wt, n), n, count, labels)
                            THEN "clustering_fill" ELSE "clustering",
                            "returned",
                            clustering_selection(total_scores(q, d, wt, n), n, count, labels))

\* More frames than asked for, and something on the clustering path raises.
Select_fallback ==
    /\ selection.pc = "idle"
    /\ \E n \in 0..MaxSelFrames, count \in 0..MaxSelCount, wt \in Weights :
        \E q \in [1..n -> Scores], d \in calculate_diversity_scores(n) :
            /\ count > 0
            /\ weight_in_range(wt)
            /\ n > count
            /\ Selected(n, count, wt, q, d, "fallback", "returned",
                        fallback_selection(total_scores(q, d, wt, n), n, count))

SelectNext ==
    \/ Select_invalid_count
    \/ Select_invalid_weight
    \/ Select_no_frames
    \/ Select_all
    \/ Select_clustering
    \/ Select_fallback

(***************************************************************************)
(* ThumbnailExtractor.save_thumbnails_batch                                *)
(*                                                                         *)
(* Thumbnail k of the batch is k; its path in saved_paths is k as well.    *)
(* save_thumbnail either returns True, returns False or raises; the file   *)
(* system decides which.                                                   *)
(***************************************************************************)
MaxBatch == 5

NoBatch ==
    [pc |-> "idle", n |-> 0, directory |-> "unchecked", i |-> 0, outcomes |-> <<>>,
     saved_paths |-> <<>>, failed_count |-> 0, out |-> "none"]

SaveInit == batch = NoBatch

SaveFrame == UNCHANGED <<jobVars, workerVars, selectVars, detectVars, videoVars, progressVars, samplingVars, thumbVars, savingVars, settingsVars, sceneVars, scoringVars, primaryVars>>

\* if not thumbnails: return []
Save_empty ==
    /\ batch.pc = "idle"
    /\ batch' = [batch EXCEPT !.pc = "done", !.out = "returned"]
    /\ SaveFrame

\* output_path.mkdir(parents=True, exist_ok=True) raises
Save_mkdir_fails ==
    /\ batch.pc = "idle"
    /\ \E n \in 1..MaxBatch :
           batch' = [batch EXCEPT !.pc = "done", !.n = n, !.directory = "not_created",
                                    !.out = "DirectoryError"]
    /\ SaveFrame

Save_mkdir ==
    /\ batch.pc = "idle"
    /\ \E n \in 1..MaxBatch :
           batch' = [batch EXCEPT !.pc = "permission", !.n = n]
    /\ SaveFrame

\* _check_write_permission returns False
Save_not_writable ==
    /\ batch.pc = "permission"
    /\ batch' = [batch EXCEPT !.pc = "done", !.directory = "not_writable",
                              !.out = "DirectoryError"]
    /\ SaveFrame

Save_writable ==
    /\ batch.pc = "permission"
    /\ batch' = [batch EXCEPT !.pc = "loop", !.directory = "writable"]
    /\ SaveFrame

\* save_thumbnail returned True: saved_paths.append(str(file_path))
Save_item_saved ==
    /\ batch.pc = "loop"
    /\ batch.i < batch.n
    /\ batch' = [batch EXCEPT !.i = @ + 1,
                              !.outcomes = Append(@, "saved"),
                              !.saved_paths = Append(@, batch.i + 1)]
    /\ SaveFrame

\* save_thumbnail returned False: failed_count += 1
Save_item_not_saved ==
    /\ batch.pc = "loop"
    /\ batch.i < batch.n
    /\ batch' = [batch EXCEPT !.i = @ + 1,
                              !.outcomes = Append(@, "not_saved"),
                              !.failed_count = @ + 1]
    /\ SaveFrame

\* the file name or the save raised: failed_count += 1; continue
Save_item_raises ==
    /\ batch.pc = "loop"
    /\ batch.i < batch.n
    /\ batch' = [batch EXCEPT !.i = @ + 1,
                              !.outcomes = Append(@, "raised"),
                              !.failed_count = @ + 1]
    /\ SaveFrame

failure_rate_at_least_half(failed, n) == 2 * failed >= n

\* failed_count > len(thumbnails) * 0.5
failure_rate_too_high(failed, n) == 2 * failed > n

Save_raise_batch_error ==
    /\ batch.pc = "loop"
    /\ batch.i = batch.n
    /\ failure_rate_too_high(batch.failed_count, batch.n)
    /\ batch' = [batch EXCEPT !.pc = "done", !.out = "BatchSaveError"]
    /\ SaveFrame

Save_return ==
    /\ batch.pc = "loop"
    /\ batch.i = batch.n
    /\ ~failure_rate_too_high(batch.failed_count, batch.n)
    /\ batch' = [batch EXCEPT !.pc = "done", !.out = "returned"]
    /\ SaveFrame

SaveNext ==
    \/ Save_empty
    \/ Save_mkdir_fails
    \/ Save_mkdir
    \/ Save_not_writable
    \/ Save_writable
    \/ Save_item_saved
    \/ Save_item_not_saved
    \/ Save_item_raises
    \/ Save_raise_batch_error
    \/ Save_return

(***************************************************************************)
(* FaceDetector.detect_faces_batch                                         *)
(*                                                                         *)
(* An element of the input list is a Frame detection succeeds on           *)
(* ("frame"), a Frame detection raises on ("unreadable": no image data, a  *)
(* wrong channel count, a MediaPipe error), or an object that is no Frame  *)
(* ("not_a_frame": None, a string, a number).                              *)
(***************************************************************************)
MaxDetFrames == 3

FrameKinds == {"frame", "unreadable", "not_a_frame"}

NoDetection ==
    [pc |-> "idle", frames |-> <<>>, i |-> 0, batch_results |-> <<>>,
     processed_count |-> 0, error_count |-> 0, out |-> "none"]

DetectInit == detection = NoDetection

DetectFrame == UNCHANGED <<jobVars, workerVars, selectVars, saveVars, videoVars, progressVars, samplingVars, thumbVars, savingVars, settingsVars, sceneVars, scoringVars, primaryVars>>

\* if not frames: return []
Detect_empty ==
    /\ detection.pc = "idle"
    /\ detection' = [detection EXCEPT !.pc = "done", !.out = "returned"]
    /\ DetectFrame

Detect_call ==
    /\ detection.pc = "idle"
    /\ \E n \in 1..MaxDetFrames :
           \E fs \in [1..n -> FrameKinds] :
               detection' = [detection EXCEPT !.pc = "loop", !.frames = fs]
    /\ DetectFrame

\* detect_faces(frame) raises for everything but a Frame it can read.
detect_faces_raises(kind) == kind /= "frame"

\* The handler formats frame.frame_number into its log line; that raises
\* AttributeError for an object that has no such attribute.
handler_raises(kind) == kind = "not_a_frame"

\* faces = self.detect_faces(frame); batch_results.append(faces)
Detect_frame_ok ==
    /\ detection.pc = "loop"
    /\ detection.i < Len(detection.frames)
    /\ ~detect_faces_raises(detection.frames[detection.i + 1])
    /\ detection' = [detection EXCEPT !.i = @ + 1,
                                      !.batch_results = Append(@, "faces"),
                                      !.processed_count = @ + 1]
    /\ DetectFrame

\* except Exception: log, batch_results.append([]), error_count += 1
Detect_frame_error ==
    /\ detection.pc = "loop"
    /\ detection.i < Len(detection.frames)
    /\ detect_faces_raises(detection.frames[detection.i + 1])
    /\ ~handler_raises(detection.frames[detection.i + 1])
    /\ detection' = [detection EXCEPT !.i = @ + 1,
                                      !.batch_results = Append(@, "empty"),
                                      !.error_count = @ + 1]
    /\ DetectFrame

\* The handler itself raises; the outer "except Exception" turns that into
\* FaceDetectionError and the batch ends there.
Detect_handler_raises ==
    /\ detection.pc = "loop"
    /\ detection.i < Len(detection.frames)
    /\ detect_faces_raises(detection.frames[detection.i + 1])
    /\ handler_raises(detection.frames[detection.i + 1])
    /\ detection' = [detection EXCEPT !.pc = "done", !.out = "FaceDetectionError"]
    /\ DetectFrame

\* error_rate = error_count / len(frames); error_rate > 0.5
error_rate_too_high(errors, n) == 2 * errors > n

Detect_raise_batch_error ==
    /\ detection.pc = "loop"
    /\ detection.i = Len(detection.frames)
    /\ error_rate_too_high(detection.error_count, Len(detection.frames))
    /\ detection' = [detection EXCEPT !.pc = "done", !.out = "BatchProcessingError"]
    /\ DetectFrame

Detect_return ==
    /\ detection.pc = "loop"
    /\ detection.i = Len(detection.frames)
    /\ ~error_rate_too_high(detection.error_count, Len(detection.frames))
    /\ detection' = [detection EXCEPT !.pc = "done", !.out = "returned"]
    /\ DetectFrame

DetectNext ==
    \/ Detect_empty
    \/ Detect_call
    \/ Detect_frame_ok
    \/ Detect_frame_error
    \/ Detect_handler_raises
    \/ Detect_raise_batch_error
    \/ Detect_return

(***************************************************************************)
(* VideoFile status and VideoProcessor.extract_frames                      *)
(*                                                                         *)
(* extract_frames is a generator: a run advances only when its consumer    *)
(* asks for the next frame, and runs over one VideoFile interleave (two    *)
(* generators in one thread, or one per worker thread).  start_processing  *)
(* reads the status and then writes it; another thread can run in between. *)
(***************************************************************************)
MaxRuns == 2
MaxVideoFrames == 2

Runs == 1..MaxRuns

VideoFileStatus ==
    {"CREATED", "VALIDATING", "VALID", "INVALID", "PROCESSING", "COMPLETED", "FAILED"}

NewVideoFile == [status |-> "CREATED", is_valid |-> FALSE]

NewRun == [pc |-> "new", current |-> 0, yielded |-> 0]

VideoInit ==
    /\ video = NewVideoFile
    /\ run = [r \in Runs |-> NewRun]

VideoFrame == UNCHANGED <<jobVars, workerVars, selectVars, saveVars, detectVars, progressVars, samplingVars, thumbVars, savingVars, settingsVars, sceneVars, scoringVars, primaryVars>>

\* A run that has passed start_processing and has not finished.
InProgress(r) == run[r].pc \in {"loop", "suspended", "finishing"}

\* validate_video_properties, every check passed
Video_validate ==
    /\ video.status = "CREATED"
    /\ video' = [status |-> "VALID", is_valid |-> TRUE]
    /\ UNCHANGED run
    /\ VideoFrame

\* validate_video_properties, a check failed
Video_validate_fails ==
    /\ video.status = "CREATED"
    /\ video' = [status |-> "INVALID", is_valid |-> FALSE]
    /\ UNCHANGED run
    /\ VideoFrame

reset_status(v) ==
    [v EXCEPT !.status = IF v.is_valid THEN "VALID" ELSE "INVALID"]

Video_reset_status ==
    /\ video.status /= "CREATED"
    /\ video' = reset_status(video)
    /\ UNCHANGED run
    /\ VideoFrame

fail_processing(v) == [status |-> "FAILED", is_valid |-> FALSE]

\* The "except Exception" of extract_frames: fail_processing, then raise.
RunFails(r) ==
    /\ video' = fail_processing(video)
    /\ run' = [run EXCEPT ![r].pc = "failed"]

\* cap.isOpened() is False: VideoProcessingError before the try block
Video_cannot_open(r) ==
    /\ run[r].pc = "new"
    /\ run' = [run EXCEPT ![r].pc = "failed"]
    /\ UNCHANGED video
    /\ VideoFrame

Video_open(r) ==
    /\ run[r].pc = "new"
    /\ run' = [run EXCEPT ![r].pc = "opened"]
    /\ UNCHANGED video
    /\ VideoFrame

\* start_processing: if self.status != VideoFileStatus.VALID: raise
start_processing_allowed(st) == st = "VALID"

Video_start_check(r) ==
    /\ run[r].pc = "opened"
    /\ start_processing_allowed(video.status)
    /\ run' = [run EXCEPT ![r].pc = "starting"]
    /\ UNCHANGED video
    /\ VideoFrame

Video_start_refused(r) ==
    /\ run[r].pc = "opened"
    /\ ~start_processing_allowed(video.status)
    /\ RunFails(r)
    /\ VideoFrame

\* start_processing: self.status = VideoFileStatus.PROCESSING
Video_start_set(r) ==
    /\ run[r].pc = "starting"
    /\ video' = [video EXCEPT !.status = "PROCESSING"]
    /\ run' = [run EXCEPT ![r].pc = "loop"]
    /\ VideoFrame

\* cap.read() returned a frame: yield it
Video_yield(r) ==
    /\ run[r].pc = "loop"
    /\ run[r].current < MaxVideoFrames
    /\ run' = [run EXCEPT ![r].pc = "suspended", ![r].yielded = @ + 1]
    /\ UNCHANGED video
    /\ VideoFrame

\* cap.read() returned nothing: break
Video_read_ends(r) ==
    /\ run[r].pc = "loop"
    /\ run' = [run EXCEPT ![r].pc = "finishing"]
    /\ UNCHANGED video
    /\ VideoFrame

\* building the Frame raised
Video_frame_raises(r) ==
    /\ run[r].pc = "loop"
    /\ run[r].current < MaxVideoFrames
    /\ RunFails(r)
    /\ VideoFrame

\* The consumer asks for the next frame: current_frame_number += frame_interval
Video_next(r) ==
    /\ run[r].pc = "suspended"
    /\ run' = [run EXCEPT ![r].current = @ + 1,
                          ![r].pc = IF run[r].current + 1 >= MaxVideoFrames
                                    THEN "finishing" ELSE "loop"]
    /\ UNCHANGED video
    /\ VideoFrame

\* The consumer drops the generator: only the finally block runs.
Video_close(r) ==
    /\ run[r].pc = "suspended"
    /\ run' = [run EXCEPT ![r].pc = "closed"]
    /\ UNCHANGED video
    /\ VideoFrame

\* complete_processing: raises unless the status is PROCESSING
Video_complete(r) ==
    /\ run[r].pc = "finishing"
    /\ video.status = "PROCESSING"
    /\ video' = [video EXCEPT !.status = "COMPLETED"]
    /\ run' = [run EXCEPT ![r].pc = "done"]
    /\ VideoFrame

Video_complete_refused(r) ==
    /\ run[r].pc = "finishing"
    /\ video.status /= "PROCESSING"
    /\ RunFails(r)
    /\ VideoFrame

VideoNext ==
    \/ Video_validate
    \/ Video_validate_fails
    \/ Video_reset_status
    \/ \E r \in Runs :
        \/ Video_cannot_open(r)
        \/ Video_open(r)
        \/ Video_start_check(r)
        \/ Video_start_refused(r)
        \/ Video_start_set(r)
        \/ Video_yield(r)
        \/ Video_read_ends(r)
        \/ Video_frame_raises(r)
        \/ Video_next(r)
        \/ Video_close(r)
        \/ Video_complete(r)
        \/ Video_complete_refused(r)

(***************************************************************************)
(* AsyncWorker's progress channel: report_progress and the progress        *)
(* monitor                                                                 *)
(*                                                                         *)
(* The k-th call of report_progress carries update k.  queue is            *)
(* progress_queue, history is progress_history (what the monitor has       *)
(* delivered).                                                             *)
(***************************************************************************)
MaxReports == 4

\* queue.Queue(): maxsize 0, which the queue module reads as "no limit".
progress_queue_maxsize == 0

\* monitor is the position of the monitor thread: none before start, check at
\* the loop condition, get inside progress_queue.get, exited after the loop.
\* resumed records that resume() has been accepted, resumed_at the number of
\* report_progress calls made before the latest resume().
NoProgress ==
    [status |-> "IDLE", calls |-> 0, queue |-> <<>>, history |-> <<>>,
     monitor |-> "none", resumed |-> FALSE, resumed_at |-> 0]

ProgressInit == progress = NoProgress

ProgressFrame == UNCHANGED <<jobVars, workerVars, selectVars, saveVars, detectVars, videoVars, samplingVars, thumbVars, savingVars, settingsVars, sceneVars, scoringVars, primaryVars>>

\* queue.Queue.put_nowait raises Full only for a positive maxsize.
queue_full(q) == progress_queue_maxsize > 0 /\ Len(q) >= progress_queue_maxsize

\* put_nowait; on queue.Full: get_nowait (drop the oldest), then put_nowait
put_progress(q, update) ==
    IF queue_full(q) THEN Append(Tail(q), update) ELSE Append(q, update)

\* AsyncWorker.start: _reset_state empties the queue and the history, then
\* _start_progress_monitor starts the monitor thread
Progress_start ==
    /\ progress.status = "IDLE"
    /\ progress' = [progress EXCEPT !.status = "RUNNING", !.queue = <<>>, !.history = <<>>,
                                    !.monitor = "check"]
    /\ ProgressFrame

Progress_pause ==
    /\ progress.status = "RUNNING"
    /\ progress' = [progress EXCEPT !.status = "PAUSED"]
    /\ ProgressFrame

Progress_resume ==
    /\ progress.status = "PAUSED"
    /\ progress' = [progress EXCEPT !.status = "RUNNING", !.resumed = TRUE,
                                    !.resumed_at = progress.calls]
    /\ ProgressFrame

\* _worker_wrapper: the task returned, the status becomes COMPLETED
Progress_complete ==
    /\ progress.status = "RUNNING"
    /\ progress' = [progress EXCEPT !.status = "COMPLETED"]
    /\ ProgressFrame

\* report_progress while RUNNING: the update is enqueued
Progress_report ==
    /\ progress.status = "RUNNING"
    /\ progress.calls < MaxReports
    /\ progress' = [progress EXCEPT !.calls = @ + 1,
                                    !.queue = put_progress(@, progress.calls + 1)]
    /\ ProgressFrame

\* report_progress by the task while the status is not RUNNING: return
Progress_report_ignored ==
    /\ progress.status = "PAUSED"
    /\ progress.calls < MaxReports
    /\ progress' = [progress EXCEPT !.calls = @ + 1]
    /\ ProgressFrame

\* monitor: while self.status == WorkerStatus.RUNNING
Progress_monitor_check ==
    /\ progress.monitor = "check"
    /\ progress' = [progress EXCEPT
           !.monitor = IF progress.status = "RUNNING" THEN "get" ELSE "exited"]
    /\ ProgressFrame

\* monitor: progress_queue.get(timeout=0.1), progress_history.append,
\* on_progress
Progress_monitor_get ==
    /\ progress.monitor = "get"
    /\ progress.queue /= <<>>
    /\ progress' = [progress EXCEPT !.queue = Tail(@),
                                    !.history = Append(@, Head(progress.queue)),
                                    !.monitor = "check"]
    /\ ProgressFrame

\* monitor: the get timed out on an empty queue (queue.Empty): continue
Progress_monitor_empty ==
    /\ progress.monitor = "get"
    /\ progress.queue = <<>>
    /\ progress' = [progress EXCEPT !.monitor = "check"]
    /\ ProgressFrame

\* The steps of the monitor thread.
MonitorNext ==
    \/ Progress_monitor_check
    \/ Progress_monitor_get
    \/ Progress_monitor_empty

ProgressNext ==
    \/ Progress_start
    \/ Progress_pause
    \/ Progress_resume
    \/ Progress_complete
    \/ Progress_report
    \/ Progress_report_ignored
    \/ Progress_monitor_check
    \/ Progress_monitor_get
    \/ Progress_monitor_empty

(***************************************************************************)
(* VideoProcessor.extract_frames: the frames of one run                    *)
(*                                                                         *)
(* fps and interval_seconds are kept in tenths, their product in           *)
(* hundredths.  The VideoFile is VALID when the run starts; how runs share *)
(* a VideoFile is the matter of the component above.                       *)
(***************************************************************************)
MaxYields == 300

_max_buffer_size == 100

FpsTenths == {10, 15, 300}
IntervalTenths == {0, 5, 10, 20}
TotalFrames == {10, 15, 16, 101, 300}

NoSampling ==
    [pc |-> "idle", fps |-> 0, interval |-> 0, total |-> 0, frame_interval |-> 0,
     current |-> 0, last |-> 0, count |-> 0, buffer |-> 0, cleared |-> 0, out |-> "none"]

SamplingInit == sampling = NoSampling

SamplingFrame == UNCHANGED <<jobVars, workerVars, selectVars, saveVars, detectVars, videoVars, progressVars, thumbVars, savingVars, settingsVars, sceneVars, scoringVars, primaryVars>>

\* int(x) for x >= 0 given in hundredths: truncation
int_of(hundredths) == hundredths \div 100

\* round(x) for x >= 0 given in hundredths: to the nearest integer, a half to
\* the even neighbour
round_of(hundredths) ==
    LET q == hundredths \div 100
        r == hundredths % 100
    IN  IF r > 50 \/ (r = 50 /\ q % 2 = 1) THEN q + 1 ELSE q

\* frame_interval = int(video_file.fps * interval_seconds)
frame_interval_of(fps, interval) == int_of(fps * interval)

\* if interval_seconds <= 0: raise ValueError
Sample_invalid_interval ==
    /\ sampling.pc = "idle"
    /\ \E fps \in FpsTenths, interval \in IntervalTenths, total \in TotalFrames :
           /\ interval <= 0
           /\ sampling' = [sampling EXCEPT !.pc = "done", !.fps = fps, !.interval = interval,
                                           !.total = total, !.out = "ValueError"]
    /\ SamplingFrame

\* The video opens, start_processing passes, the loop is entered.
Sample_start ==
    /\ sampling.pc = "idle"
    /\ \E fps \in FpsTenths, interval \in IntervalTenths, total \in TotalFrames :
           /\ interval > 0
           /\ sampling' = [sampling EXCEPT !.pc = "loop", !.fps = fps, !.interval = interval,
                                           !.total = total,
                                           !.frame_interval = frame_interval_of(fps, interval)]
    /\ SamplingFrame

\* One pass of the loop body up to the yield: the frame at current_frame_number
\* is read, a full buffer is cleared, the frame is buffered and yielded.
Sample_yield ==
    /\ sampling.pc = "loop"
    /\ sampling.count < MaxYields
    /\ sampling' = [sampling EXCEPT
           !.pc = "suspended",
           !.last = sampling.current,
           !.count = @ + 1,
           !.cleared = IF sampling.buffer >= _max_buffer_size THEN @ + 1 ELSE @,
           !.buffer = IF sampling.buffer >= _max_buffer_size THEN 1 ELSE @ + 1]
    /\ SamplingFrame

\* Building the Frame raises MemoryError: InsufficientMemoryError is raised
\* inside the try block, whose "except Exception" re-raises it as
\* VideoProcessingError; finally clears the buffer.
Sample_memory_error ==
    /\ sampling.pc = "loop"
    /\ sampling' = [sampling EXCEPT !.pc = "done", !.buffer = 0,
                                    !.out = "VideoProcessingError"]
    /\ SamplingFrame

\* After the yield: current_frame_number += frame_interval; break at the end
\* of the video, then complete_processing and the finally block.
Sample_next ==
    /\ sampling.pc = "suspended"
    /\ LET next == sampling.current + sampling.frame_interval
       IN  sampling' = IF next >= sampling.total
                       THEN [sampling EXCEPT !.current = next, !.pc = "done",
                                             !.buffer = 0, !.out = "exhausted"]
                       ELSE [sampling EXCEPT !.current = next, !.pc = "loop"]
    /\ SamplingFrame

SamplingNext ==
    \/ Sample_invalid_interval
    \/ Sample_start
    \/ Sample_yield
    \/ Sample_memory_error
    \/ Sample_next

(***************************************************************************)
(* ThumbnailExtractor.generate_thumbnail and Thumbnail.create_from_frame   *)
(*                                                                         *)
(* Only the shape of the pixel buffer is modelled: the frame is fw x fh,   *)
(* the settings ask for ow x oh, the cropped image is cw x ch.             *)
(***************************************************************************)
FrameDims == {1, 2, 240, 1080, 1920}
OutputDims == {240, 1080, 1920, 4096}

NoThumbnail ==
    [pc |-> "idle", fw |-> 0, fh |-> 0, ow |-> 0, oh |-> 0, branch |-> "none",
     cw |-> 0, ch |-> 0, out |-> "none", width |-> 0, height |-> 0]

ThumbInit == thumb = NoThumbnail

ThumbFrame == UNCHANGED <<jobVars, workerVars, selectVars, saveVars, detectVars, videoVars, progressVars, samplingVars, savingVars, settingsVars, sceneVars, scoringVars, primaryVars>>

\* int(a * (b / c)) in floating point: the floor of a*b/c, or one less when the
\* quotient is a whole number that the rounded product falls just short of.
crop_lengths(a, b, c) ==
    {(a * b) \div c} \cup
        (IF (a * b) % c = 0 /\ (a * b) \div c > 0 /\ b % c /= 0
         THEN {(a * b) \div c - 1} ELSE {})

unresized_shape(cw, ch, ow, oh) == <<cw, ch>>

\* create_from_frame: cv2.resize to (output_width, output_height) when the
\* shape differs from it
resized_shape(cw, ch, ow, oh) == <<ow, oh>>

\* The rest of generate_thumbnail once the image is cropped to cw x ch:
\* cv2.resize raises on an empty image, which ends in ThumbnailGenerationError.
Generated(fw, fh, ow, oh, branch, cw, ch) ==
    LET resize == cw /= ow \/ ch /= oh
        failed == resize /\ (cw = 0 \/ ch = 0)
        shape == IF resize THEN resized_shape(cw, ch, ow, oh) ELSE <<cw, ch>>
    IN  /\ thumb' = [pc |-> "done", fw |-> fw, fh |-> fh, ow |-> ow, oh |-> oh,
                     branch |-> branch, cw |-> cw, ch |-> ch,
                     out |-> IF failed THEN "ThumbnailGenerationError" ELSE "returned",
                     width |-> IF failed THEN 0 ELSE shape[1],
                     height |-> IF failed THEN 0 ELSE shape[2]]
        /\ ThumbFrame

\* current_aspect > target_aspect: crop left and right
Thumb_crop_width ==
    /\ thumb.pc = "idle"
    /\ \E fw \in FrameDims, fh \in FrameDims, ow \in OutputDims, oh \in OutputDims :
           /\ fw * oh > ow * fh
           /\ \E new_width \in crop_lengths(fh, ow, oh) :
                  Generated(fw, fh, ow, oh, "crop_width", new_width, fh)

\* current_aspect < target_aspect: crop top and bottom
Thumb_crop_height ==
    /\ thumb.pc = "idle"
    /\ \E fw \in FrameDims, fh \in FrameDims, ow \in OutputDims, oh \in OutputDims :
           /\ fw * oh < ow * fh
           /\ \E new_height \in crop_lengths(fw, oh, ow) :
                  Generated(fw, fh, ow, oh, "crop_height", fw, new_height)

\* the aspect ratios are equal: no crop
Thumb_no_crop ==
    /\ thumb.pc = "idle"
    /\ \E fw \in FrameDims, fh \in FrameDims, ow \in OutputDims, oh \in OutputDims :
           /\ fw * oh = ow * fh
           /\ Generated(fw, fh, ow, oh, "no_crop", fw, fh)

ThumbNext ==
    \/ Thumb_crop_width
    \/ Thumb_crop_height
    \/ Thumb_no_crop

(***************************************************************************)
(* ThumbnailExtractor.save_thumbnail and Thumbnail.save: one call, from    *)
(* the creation of the target directory to the value returned or the       *)
(* exception raised.  The required byte size is pixel_count * 3.           *)
(***************************************************************************)
PixelCounts == 1..4

FreeBytes == 0..24

RaisedBySave == {"DiskSpaceError", "FilePermissionError", "FileSaveError"}

NoSaving ==
  [pc |-> "idle", free |-> 0, required |-> 0, space_checked |-> FALSE,
   written |-> FALSE, save_caught |-> FALSE, result |-> "none"]

SavingInit == saving = NoSaving

SavingFrame == UNCHANGED <<jobVars, workerVars, selectVars, saveVars, detectVars, videoVars, progressVars, samplingVars, thumbVars, settingsVars, sceneVars, scoringVars, primaryVars>>

\* free >= required_bytes * 2
_check_disk_space(free, required_bytes) == free >= required_bytes * 2

\* save_path.parent.mkdir raises: the generic handler turns it into
\* FileSaveError.
SaveOne_mkdir_raises ==
  /\ saving.pc = "idle"
  /\ saving' = [saving EXCEPT !.pc = "done", !.result = "FileSaveError"]
  /\ SavingFrame

SaveOne_mkdir ==
  /\ saving.pc = "idle"
  /\ \E p \in PixelCounts, f \in FreeBytes :
       saving' = [saving EXCEPT !.pc = "space", !.free = f,
                                !.required = p * 3]
  /\ SavingFrame

\* shutil.disk_usage raises inside _check_disk_space: the check answers True.
SaveOne_disk_usage_raises ==
  /\ saving.pc = "space"
  /\ saving' = [saving EXCEPT !.pc = "permission"]
  /\ SavingFrame

SaveOne_no_space ==
  /\ saving.pc = "space"
  /\ ~_check_disk_space(saving.free, saving.required)
  /\ saving' = [saving EXCEPT !.pc = "done", !.space_checked = TRUE,
                              !.result = "DiskSpaceError"]
  /\ SavingFrame

SaveOne_space_ok ==
  /\ saving.pc = "space"
  /\ _check_disk_space(saving.free, saving.required)
  /\ saving' = [saving EXCEPT !.pc = "permission", !.space_checked = TRUE]
  /\ SavingFrame

SaveOne_not_writable ==
  /\ saving.pc = "permission"
  /\ saving' = [saving EXCEPT !.pc = "done",
                              !.result = "FilePermissionError"]
  /\ SavingFrame

SaveOne_writable ==
  /\ saving.pc = "permission"
  /\ saving' = [saving EXCEPT !.pc = "write"]
  /\ SavingFrame

\* Thumbnail.save: cv2.imwrite answers True.
SaveOne_imwrite_ok ==
  /\ saving.pc = "write"
  /\ saving' = [saving EXCEPT !.pc = "done", !.written = TRUE,
                              !.result = "True"]
  /\ SavingFrame

\* Thumbnail.save: cv2.imwrite answers False; save returns False and
\* save_thumbnail returns that value.
SaveOne_imwrite_false ==
  /\ saving.pc = "write"
  /\ saving' = [saving EXCEPT !.pc = "done", !.result = "False"]
  /\ SavingFrame

\* Thumbnail.save: anything raises inside its try block; the handler
\* prints and returns False.
SaveOne_save_raises ==
  /\ saving.pc = "write"
  /\ saving' = [saving EXCEPT !.pc = "done", !.save_caught = TRUE,
                              !.result = "False"]
  /\ SavingFrame

SavingNext ==
  \/ SaveOne_mkdir_raises
  \/ SaveOne_mkdir
  \/ SaveOne_disk_usage_raises
  \/ SaveOne_no_space
  \/ SaveOne_space_ok
  \/ SaveOne_not_writable
  \/ SaveOne_writable
  \/ SaveOne_imwrite_ok
  \/ SaveOne_imwrite_false
  \/ SaveOne_save_raises

(***************************************************************************)
(* UserSettings: construction, i.e. the dataclass __init__ followed by     *)
(* __post_init__ and its four validators.  Ratios are in hundredths and    *)
(* the frame interval in tenths of a second.                               *)
(***************************************************************************)
min_size == 240

max_size == 4096

max_thumbnail_count == 20

max_frame_interval == 100

Sizes == {0, min_size - 1, min_size, max_size, max_size + 1}

Counts == {0, 1, max_thumbnail_count, max_thumbnail_count + 1}

Ratios == {-1, 0, 100, 101}

Intervals == {0, 1, max_frame_interval, max_frame_interval + 1}

\* The fields of the dataclass: there is no field and no property named
\* orientation.
UserSettingsAttributes ==
  {"output_width", "output_height", "thumbnail_count", "output_directory",
   "file_name_prefix", "output_format", "quality_threshold",
   "diversity_weight", "face_size_preference", "frame_interval",
   "scene_change_threshold", "face_confidence_threshold", "created_at",
   "custom_settings", "is_portrait_output", "is_landscape_output",
   "aspect_ratio", "resolution_category", "estimated_file_size_mb"}

Raised(kind, field) == [kind |-> kind, field |-> field]

Passed == Raised("none", "none")

\* Reading self.<name>: AttributeError when the object has no such attribute.
getattr_raises(name) == name \notin UserSettingsAttributes

_validate_output_settings(s) ==
  IF s.output_width <= 0 THEN Raised("ValueError", "output_width")
  ELSE IF s.output_height <= 0 THEN Raised("ValueError", "output_height")
  ELSE IF s.output_width < min_size \/ s.output_width > max_size
    THEN Raised("ValueError", "output_width")
  ELSE IF s.output_height < min_size \/ s.output_height > max_size
    THEN Raised("ValueError", "output_height")
  ELSE IF s.thumbnail_count <= 0 THEN Raised("ValueError", "thumbnail_count")
  ELSE IF s.thumbnail_count > max_thumbnail_count
    THEN Raised("ValueError", "thumbnail_count")
  ELSE IF getattr_raises("orientation")
    THEN Raised("AttributeError", "orientation")
  ELSE Passed

_validate_quality_settings(s) ==
  IF ~(0 <= s.quality_threshold /\ s.quality_threshold <= 100)
    THEN Raised("ValueError", "quality_threshold")
  ELSE IF ~(0 <= s.diversity_weight /\ s.diversity_weight <= 100)
    THEN Raised("ValueError", "diversity_weight")
  ELSE Passed

_validate_processing_settings(s) ==
  IF s.frame_interval <= 0 THEN Raised("ValueError", "frame_interval")
  ELSE IF s.frame_interval > max_frame_interval
    THEN Raised("ValueError", "frame_interval")
  ELSE IF ~(0 <= s.scene_change_threshold /\ s.scene_change_threshold <= 100)
    THEN Raised("ValueError", "scene_change_threshold")
  ELSE IF ~(0 <= s.face_confidence_threshold
            /\ s.face_confidence_threshold <= 100)
    THEN Raised("ValueError", "face_confidence_threshold")
  ELSE Passed

\* The validators run in this order; the first exception ends construction.
\* _validate_file_settings passes on the default prefix and format.
__post_init__(s) ==
  IF _validate_output_settings(s) # Passed THEN _validate_output_settings(s)
  ELSE IF _validate_quality_settings(s) # Passed
    THEN _validate_quality_settings(s)
  ELSE _validate_processing_settings(s)

SettingsArgs ==
  [output_width : Sizes, output_height : Sizes, thumbnail_count : Counts,
   quality_threshold : Ratios, diversity_weight : Ratios,
   frame_interval : Intervals, scene_change_threshold : Ratios,
   face_confidence_threshold : Ratios]

NoSettings ==
  [pc |-> "idle",
   args |-> [output_width |-> 0, output_height |-> 0, thumbnail_count |-> 0,
             quality_threshold |-> 0, diversity_weight |-> 0,
             frame_interval |-> 0, scene_change_threshold |-> 0,
             face_confidence_threshold |-> 0],
   fields |-> [output_width |-> 0, output_height |-> 0, thumbnail_count |-> 0,
               quality_threshold |-> 0, diversity_weight |-> 0,
               frame_interval |-> 0, scene_change_threshold |-> 0,
               face_confidence_threshold |-> 0],
   raised |-> Passed]

SettingsInit == settings = NoSettings

SettingsFrame == UNCHANGED <<jobVars, workerVars, selectVars, saveVars, detectVars, videoVars, progressVars, samplingVars, thumbVars, savingVars, sceneVars, scoringVars, primaryVars>>

\* The generated __init__ stores the arguments as given, then __post_init__
\* runs.
Constructed(a) ==
  [pc |-> "done", args |-> a, fields |-> a, raised |-> __post_init__(a)]

Settings_value_error ==
  /\ settings.pc = "idle"
  /\ \E a \in SettingsArgs :
       /\ __post_init__(a).kind = "ValueError"
       /\ settings' = Constructed(a)
  /\ SettingsFrame

Settings_attribute_error ==
  /\ settings.pc = "idle"
  /\ \E a \in SettingsArgs :
       /\ __post_init__(a).kind = "AttributeError"
       /\ settings' = Constructed(a)
  /\ SettingsFrame

SettingsNext ==
  \/ Settings_value_error
  \/ Settings_attribute_error

(***************************************************************************)
(* VideoProcessor.detect_scene_changes: one call.  A frame list is given   *)
(* by the divergence of each frame from its predecessor (hundredths; the   *)
(* first frame has none: frame k >= 2 has divergence scores[k - 1]), the    *)
(* threshold in hundredths.                                                *)
(***************************************************************************)
MaxSceneFrames == 4

Divergences == {0, 30, 100}

Thresholds == {-10, 0, 30, 100, 110}

NoScene ==
  [pc |-> "idle", frames |-> 0, scores |-> <<>>, threshold |-> 0,
   out |-> "none", result |-> <<>>]

SceneInit == scene = NoScene

SceneFrame == UNCHANGED <<jobVars, workerVars, selectVars, saveVars, detectVars, videoVars, progressVars, samplingVars, thumbVars, savingVars, settingsVars, scoringVars, primaryVars>>

\* if not (0.0 <= threshold <= 1.0)
threshold_in_range(th) == 0 <= th /\ th <= 100

\* The threshold is out of range: InvalidThresholdError.
Scene_invalid_threshold ==
  /\ scene.pc = "idle"
  /\ \E n \in 0..MaxSceneFrames, th \in Thresholds :
       /\ ~threshold_in_range(th)
       /\ \E d \in IF n = 0 THEN {<<>>} ELSE [1..(n - 1) -> Divergences] :
            scene' = [pc |-> "done", frames |-> n, scores |-> d,
                      threshold |-> th, out |-> "InvalidThresholdError",
                      result |-> <<>>]
  /\ SceneFrame

\* The threshold is in range: the function body ends after the check, so the
\* call returns None.  The loop that compares frames stands after the return
\* statements of _get_video_rotation and is never executed.
Scene_returns_none ==
  /\ scene.pc = "idle"
  /\ \E n \in 0..MaxSceneFrames, th \in Thresholds :
       /\ threshold_in_range(th)
       /\ \E d \in IF n = 0 THEN {<<>>} ELSE [1..(n - 1) -> Divergences] :
            scene' = [pc |-> "done", frames |-> n, scores |-> d,
                      threshold |-> th, out |-> "None", result |-> <<>>]
  /\ SceneFrame

SceneNext ==
  \/ Scene_invalid_threshold
  \/ Scene_returns_none

(***************************************************************************)
(* DiversitySelector.calculate_diversity_scores: one call on n frames.     *)
(* Scores are in tenths.                                                   *)
(***************************************************************************)
MaxScoreFrames == 6

NoScoring == [pc |-> "idle", n |-> 0, out |-> "none", result |-> <<>>]

ScoringInit == scoring = NoScoring

ScoringFrame == UNCHANGED <<jobVars, workerVars, selectVars, saveVars, detectVars, videoVars, progressVars, samplingVars, thumbVars, savingVars, settingsVars, sceneVars, primaryVars>>

\* if len(frames) < 2: return [1.0] * len(frames)
Score_few_frames ==
  /\ scoring.pc = "idle"
  /\ \E n \in 0..MaxScoreFrames :
       /\ n < 2
       /\ \E d \in calculate_diversity_scores(n) :
            scoring' = [pc |-> "done", n |-> n, out |-> "returned",
                        result |-> d]
  /\ ScoringFrame

\* Two frames or more: the three signals are combined and clamped to [0,1].
Score_computed ==
  /\ scoring.pc = "idle"
  /\ \E n \in 0..MaxScoreFrames :
       /\ n >= 2
       /\ \E d \in calculate_diversity_scores(n) :
            scoring' = [pc |-> "done", n |-> n, out |-> "returned",
                        result |-> d]
  /\ ScoringFrame

\* Two frames or more and something raises inside the try block.
Score_raises ==
  /\ scoring.pc = "idle"
  /\ \E n \in 0..MaxScoreFrames :
       /\ n >= 2
       /\ scoring' = [pc |-> "done", n |-> n,
                      out |-> "DiversityCalculationError", result |-> <<>>]
  /\ ScoringFrame

ScoringNext ==
  \/ Score_few_frames
  \/ Score_computed
  \/ Score_raises

(***************************************************************************)
(* The primary face of a frame: FaceDetector.get_primary_face and the      *)
(* property Frame.primary_face.  A detection is given by its confidence    *)
(* (tenths) and its face_size, the area of its bounding box.               *)
(***************************************************************************)
MaxFaces == 3

Confidences == {5, 9}

FaceSizes == {1, 4}

Detections == [confidence : Confidences, face_size : FaceSizes]

FaceLists == UNION {[1..n -> Detections] : n \in 0..MaxFaces}

NoPrimary == [pc |-> "idle", by |-> "none", faces |-> <<>>, result |-> 0]

PrimaryInit == primary = NoPrimary

PrimaryFrame == UNCHANGED <<jobVars, workerVars, selectVars, saveVars, detectVars, videoVars, progressVars, samplingVars, thumbVars, savingVars, settingsVars, sceneVars, scoringVars>>

\* key=lambda f: f.confidence * f.face_size
confidence_times_size(f) == f.confidence * f.face_size

\* key=lambda f: f.confidence
confidence_alone(f) == f.confidence

\* max(faces, key=...): the index of the first element with the largest key.
max_by_product(faces) ==
  CHOOSE k \in 1..Len(faces) :
    /\ \A j \in 1..Len(faces) :
         confidence_times_size(faces[j]) <= confidence_times_size(faces[k])
    /\ \A j \in 1..(k - 1) :
         confidence_times_size(faces[j]) < confidence_times_size(faces[k])

max_by_confidence(faces) ==
  CHOOSE k \in 1..Len(faces) :
    /\ \A j \in 1..Len(faces) :
         confidence_alone(faces[j]) <= confidence_alone(faces[k])
    /\ \A j \in 1..(k - 1) :
         confidence_alone(faces[j]) < confidence_alone(faces[k])

\* FaceDetector.get_primary_face: detect_faces(frame) gave `faces`.
Primary_get_primary_face ==
  /\ primary.pc = "idle"
  /\ \E faces \in FaceLists :
       primary' = [pc |-> "done", by |-> "get_primary_face", faces |-> faces,
                   result |-> IF faces = <<>> THEN 0
                              ELSE max_by_product(faces)]
  /\ PrimaryFrame

\* FaceDetector.get_primary_face: detect_faces raised, no detection list
\* exists; the handler returns None.
Primary_get_primary_face_raises ==
  /\ primary.pc = "idle"
  /\ primary' = [pc |-> "done", by |-> "get_primary_face_raised",
                 faces |-> <<>>, result |-> 0]
  /\ PrimaryFrame

\* Frame.primary_face over the frame's faces_detected, as read by
\* DiversitySelector._extract_face_position_features.
Primary_frame_primary_face ==
  /\ primary.pc = "idle"
  /\ \E faces \in FaceLists :
       primary' = [pc |-> "done", by |-> "Frame.primary_face",
                   faces |-> faces,
                   result |-> IF faces = <<>> THEN 0
                              ELSE max_by_confidence(faces)]
  /\ PrimaryFrame

PrimaryNext ==
  \/ Primary_get_primary_face
  \/ Primary_get_primary_face_raises
  \/ Primary_frame_primary_face

(***************************************************************************)
(* Specifications                                                          *)
(***************************************************************************)

Init == JobInit /\ WorkerInit /\ SelectInit /\ SaveInit /\ DetectInit /\ VideoInit /\ ProgressInit /\ SamplingInit /\ ThumbInit /\ SavingInit /\ SettingsInit /\ SceneInit /\ ScoringInit /\ PrimaryInit

Spec == Init /\ [][JobNext]_vars

SpecWorker == Init /\ [][WorkerNext]_vars

SpecWorkerRun == Init /\ [][OneRunNext]_vars

\* A single run in which the task thread keeps being scheduled and a cancel()
\* call that has passed its status check runs to its return (join waits at
\* most five seconds).  Nothing obliges the caller to make further calls.
Worker_cancel_proceeds ==
    \/ Worker_cancel_set
    \/ Worker_cancel_joined
    \/ Worker_cancel_timeout
    \/ Worker_cancel_finish

SpecWorkerRunFair ==
    /\ Init
    /\ [][OneRunNext]_vars
    /\ WF_vars(\E t \in Threads : TaskNext(t))
    /\ WF_vars(Worker_cancel_proceeds)

SpecSelect == Init /\ [][SelectNext]_vars

SpecSave == Init /\ [][SaveNext]_vars

SpecDetect == Init /\ [][DetectNext]_vars

SpecVideo == Init /\ [][VideoNext]_vars

SpecPrimary == Init /\ [][PrimaryNext]_vars

SpecScoring == Init /\ [][ScoringNext]_vars

SpecScene == Init /\ [][SceneNext]_vars

SpecSettings == Init /\ [][SettingsNext]_vars

SpecSaveOne == Init /\ [][SavingNext]_vars

SpecThumb == Init /\ [][ThumbNext]_vars

SpecSampling == Init /\ [][SamplingNext]_vars

SpecProgress == Init /\ [][ProgressNext]_vars

\* The monitor thread, once started, keeps being scheduled.
SpecProgressFair == Init /\ [][ProgressNext]_vars /\ WF_vars(MonitorNext)

(***************************************************************************)
(* Claims about ThumbnailExtractionJob (specification Spec)                *)
(***************************************************************************)

TransitionOps == {"start", "pause", "resume", "complete", "fail", "cancel"}

\* C1: once the job's status is COMPLETED, FAILED or CANCELLED, every later
\* start, pause, resume, complete, fail or cancel raises and leaves the
\* status as it was.
C1_TerminalAbsorbing ==
    (jobLast.op \in TransitionOps /\ is_completed(jobLast.before))
        => (jobLast.raised /\ job.status = jobLast.before)

\* C9: pause, resume, complete, fail and cancel called on a CREATED job never
\* change its status; only start moves it, to RUNNING.
C9_CreatedOnlyToRunning ==
    (jobLast.op \in TransitionOps /\ jobLast.before = "CREATED")
        => \/ job.status = "CREATED" /\ jobLast.op /= "start"
           \/ job.status = "RUNNING" /\ jobLast.op = "start"

\* C10 as stated: the job enters PAUSED only from RUNNING, and a call made on
\* a PAUSED job leaves it PAUSED or moves it to RUNNING, never to COMPLETED,
\* FAILED or CANCELLED.
C10_PausedOnlyToRunning ==
    /\ (job.status = "PAUSED" /\ jobLast.before /= "PAUSED")
           => (jobLast.op = "pause" /\ jobLast.before = "RUNNING")
    /\ (jobLast.op \in TransitionOps /\ jobLast.before = "PAUSED")
           => job.status \in {"PAUSED", "RUNNING"}

\* C10 amended: the job enters PAUSED only from RUNNING (by pause); on a PAUSED
\* job resume moves it to RUNNING, complete to COMPLETED, fail to FAILED and
\* cancel to CANCELLED, while start and pause raise and leave it PAUSED.
C10_PausedTransitions ==
    /\ (job.status = "PAUSED" /\ jobLast.before /= "PAUSED")
           => (jobLast.op = "pause" /\ jobLast.before = "RUNNING")
    /\ (jobLast.op \in TransitionOps /\ jobLast.before = "PAUSED")
           => /\ job.status = CASE jobLast.op = "resume"   -> "RUNNING"
                                [] jobLast.op = "complete" -> "COMPLETED"
                                [] jobLast.op = "fail"     -> "FAILED"
                                [] jobLast.op = "cancel"   -> "CANCELLED"
                                [] OTHER                   -> "PAUSED"
              /\ jobLast.raised <=> jobLast.op \in {"start", "pause"}

\* A PAUSED job was completed directly, after having been paused from RUNNING.
C10_Witness ==
    /\ jobLast.op = "complete"
    /\ jobLast.before = "PAUSED"
    /\ job.status = "COMPLETED"
    /\ job.started_at

(***************************************************************************)
(* Claims about AsyncWorker and the pipeline task (specification SpecWorker)*)
(***************************************************************************)

\* The status each terminal callback goes with.
StatusOf(kind) ==
    CASE kind = "completed" -> "COMPLETED"
      [] kind = "error"     -> "ERROR"
      [] kind = "cancelled" -> "CANCELLED"

\* Run r is over: its thread has ended and no cancel() call is under way.
RunOver(r) == thr[r].pc = "dead" /\ caller.pc = "idle"

\* C2: each run gets exactly one terminal notification (on_completed, on_error
\* or on_cancelled) and the worker's final status is the one that goes with it:
\* never a second notification, and once the run is over exactly one, matching
\* the status of the worker while that run is its latest.
C2_ExactlyOneTerminal ==
    \A r \in Threads :
        /\ Len(notes[r]) <= 1
        /\ RunOver(r) => /\ Len(notes[r]) = 1
                         /\ (r = w.thread /\ Len(notes[r]) = 1)
                                => w.status = StatusOf(notes[r][1])

\* C3: cancel() called while the worker is PAUSED is accepted (it does not
\* return False at the status check, so the flag that releases the blocked
\* task gets set).
C3_CancelWhilePausedAccepted ==
    ~(caller.op = "cancel" /\ caller.at = "PAUSED" /\ caller.pc = "idle" /\ ~caller.ret)

\* C4: once the cancellation flag is set, the task finishes at most the frame
\* it is processing, in the sampling, face-filtering and composing loops alike.
C4_AtMostCurrentFrameAfterCancel ==
    \A t \in Threads : thr[t].late <= 1

(***************************************************************************)
(* Claims about select_diverse_frames (specification SpecSelect)           *)
(***************************************************************************)

Succeeded(outcomes) == {k \in 1..Len(outcomes) : outcomes[k] = "saved"}

Errored(frames) == {k \in 1..Len(frames) : detect_faces_raises(frames[k])}

\* C7: detect_faces_batch raises BatchProcessingError exactly when strictly
\* more than half of the input frames errored individually, and otherwise
\* returns one result per input frame in input order, the empty list for
\* every frame whose detection errored.
C7_BatchDetectThreshold ==
    (detection.pc = "done" /\ Len(detection.frames) > 0)
    => /\ (detection.out = "BatchProcessingError")
            <=> (2 * Cardinality(Errored(detection.frames)) > Len(detection.frames))
       /\ detection.out /= "BatchProcessingError"
            => /\ detection.out = "returned"
               /\ Len(detection.batch_results) = Len(detection.frames)
               /\ \A k \in 1..Len(detection.frames) :
                      detection.batch_results[k] =
                          IF k \in Errored(detection.frames) THEN "empty" ELSE "faces"

(***************************************************************************)
(* Claims about VideoFile and extract_frames (specification SpecVideo)     *)
(***************************************************************************)

\* C8: no two sampling runs over one VideoFile are in progress together:
\* while a run has moved the VideoFile to PROCESSING and has not finished,
\* no other run on that VideoFile yields a frame.
C8_NoConcurrentSampling ==
    [][\A r \in Runs :
           run'[r].yielded > run[r].yielded
               => \A q \in Runs \ {r} : ~InProgress(q)]_vars

(***************************************************************************)
(* Claims about the progress channel (specification SpecProgress)          *)
(***************************************************************************)

PendingBound == 2

\* C11: the number of progress updates pending in the progress channel never
\* exceeds a fixed bound (here PendingBound; report_progress drops the oldest
\* pending update when the channel is full).
C11_PendingUpdatesBounded == Len(progress.queue) <= PendingBound

(***************************************************************************)
(* Claims about the frames of an extract_frames run (specification         *)
(* SpecSampling)                                                           *)
(***************************************************************************)

\* The step the specification gives: round(fps * interval).
RoundedStep == round_of(sampling.fps * sampling.interval)

\* The number of indices 0, s, 2s, ... below total.
IndicesBelow(total, s) == (total + s - 1) \div s

\* C12: for a video of F frames and an interval > 0, extract_frames yields
\* exactly the frame indices 0, s, 2s, ... below F with s = round(fps *
\* interval), in increasing order: the k-th frame yielded is frame (k-1)*s,
\* and a run that reaches the end has yielded every such index (300 frames at
\* 30 fps and interval 1.0 give 10 frames).
C12_YieldsRoundedSteps ==
    /\ sampling.pc = "suspended"
           => /\ sampling.last = (sampling.count - 1) * RoundedStep
              /\ sampling.last < sampling.total
    /\ (sampling.pc = "done" /\ sampling.out = "exhausted")
           => /\ RoundedStep > 0
              /\ sampling.count = IndicesBelow(sampling.total, RoundedStep)


(***************************************************************************)
(* More claims about VideoFile and extract_frames (specification SpecVideo)*)
(***************************************************************************)

\* C13: sampling is restartable by calling again: once a run over the
\* VideoFile has run to completion (and no other run is under way), a new run
\* on the same VideoFile is let through start_processing, so that it yields
\* the frames again from the start.
C13_RestartableAfterCompletion ==
    [][\A q \in Runs :
           (/\ run[q].pc = "opened"
            /\ \E r \in Runs \ {q} : run[r].pc = "done"
            /\ \A r \in Runs \ {q} : run[r].pc \in {"new", "done"}
            /\ video.status = "COMPLETED")
               => run'[q].pc /= "failed"]_vars

(***************************************************************************)
(* More claims about the frames of a run (specification SpecSampling)      *)
(***************************************************************************)

\* C14: during sampling the frame buffer is never emptied; a frame that
\* would take it past its maximum size makes extract_frames fail instead.
C14_BufferNeverEmptied == sampling.pc \in {"loop", "suspended"} => sampling.cleared = 0


(***************************************************************************)
(* Claims about generate_thumbnail (specification SpecThumb)               *)
(***************************************************************************)

C17_SelectedAreDistinctInputs ==
    selection.out = "returned"
    => /\ \A a \in 1..Len(selection.result) : selection.result[a] \in 1..selection.n
       /\ Cardinality({selection.result[a] : a \in 1..Len(selection.result)})
              = Len(selection.result)

\* The fill step added a candidate to the cluster representatives.
C17_Witness ==
    /\ selection.path = "clustering_fill"
    /\ Len(selection.result) = selection.count
    /\ selection.count > 1


\* C18: a finished save_thumbnail call that did not write the image has
\* raised DiskSpaceError, FilePermissionError or FileSaveError; it never
\* returned normally.
C18_FailedSaveRaises ==
  (saving.pc = "done" /\ ~saving.written) => saving.result \in RaisedBySave


InRange(s) ==
  /\ s.output_width \in min_size..max_size
  /\ s.output_height \in min_size..max_size
  /\ s.thumbnail_count \in 1..max_thumbnail_count
  /\ s.quality_threshold \in 0..100
  /\ s.diversity_weight \in 0..100
  /\ s.scene_change_threshold \in 0..100
  /\ s.face_confidence_threshold \in 0..100
  /\ s.frame_interval \in 1..max_frame_interval

FieldInRange(s, f) ==
  CASE f = "output_width" -> s.output_width \in min_size..max_size
    [] f = "output_height" -> s.output_height \in min_size..max_size
    [] f = "thumbnail_count" -> s.thumbnail_count \in 1..max_thumbnail_count
    [] f = "frame_interval" -> s.frame_interval \in 1..max_frame_interval
    [] f = "quality_threshold" -> s.quality_threshold \in 0..100
    [] f = "diversity_weight" -> s.diversity_weight \in 0..100
    [] f = "scene_change_threshold" -> s.scene_change_threshold \in 0..100
    [] f = "face_confidence_threshold" ->
         s.face_confidence_threshold \in 0..100
    [] OTHER -> TRUE

\* C19: constructing a UserSettings succeeds when every field is inside its
\* range, fails with a validation error naming an offending field when some
\* field is outside its range, and stores the values as given.
C19_ValidatedAtConstruction ==
  settings.pc = "done" =>
    /\ settings.fields = settings.args
    /\ InRange(settings.args) => settings.raised = Passed
    /\ ~InRange(settings.args) =>
         /\ settings.raised.kind = "ValueError"
         /\ ~FieldInRange(settings.args, settings.raised.field)


\* The task raises out of the loop it is in: the thread ends.
AbortedInLoop(t, at) == thr[t].pc = at /\ thr'[t].pc = "dead"

\* C20: in the pipeline task a face-detection call or a thumbnail composition
\* that raises does not end the run unless more than half of the loop's
\* items have failed.  The first failure ends the task, so exactly one item
\* has failed at that point: more than half means 1 * 2 > items.
C20_SingleFrameFailureSkipped ==
  [][\A t \in Threads :
       /\ AbortedInLoop(t, "face_detect") => 1 * 2 > thr[t].n
       /\ AbortedInLoop(t, "gen_make") => 1 * 2 > thr[t].sel]_vars


(***************************************************************************)
(* Claims about the worker's outcome (specification SpecWorker)            *)
(***************************************************************************)

\* The face loop of thread t is complete, it kept no frame, and the run has
\* not been cancelled.
NoFaceFound(t) ==
    /\ thr[t].pc = "face_top"
    /\ thr[t].i = thr[t].n
    /\ thr[t].faces = 0
    /\ ~w.cancel_event

KeptIndices(n, d, th) == {k \in 1..n : k = 1 \/ d[k - 1] >= th}

\* C22: for a threshold in [0,1] detect_scene_changes returns the sub-list of
\* the input made of the first frame and of every later frame whose
\* divergence from its predecessor is >= threshold; for a threshold outside
\* [0,1] it fails with the threshold-range error.
C22_SceneChangesKept ==
  scene.pc = "done" =>
    IF threshold_in_range(scene.threshold)
    THEN /\ scene.out = "list"
         /\ {scene.result[j] : j \in 1..Len(scene.result)}
              = KeptIndices(scene.frames, scene.scores, scene.threshold)
         /\ \A j \in 1..(Len(scene.result) - 1) :
              scene.result[j] < scene.result[j + 1]
    ELSE scene.out = "InvalidThresholdError"


(***************************************************************************)
(* Claims about calculate_diversity_scores (specification SpecScoring)     *)
(***************************************************************************)

\* C23: calculate_diversity_scores fails with InsufficientFramesError on an
\* empty frame list and returns the list [1.0] on a list of one frame.
C23_EmptyFailsSingleIsOne ==
  scoring.pc = "done" =>
    /\ scoring.n = 0 => scoring.out = "InsufficientFramesError"
    /\ scoring.n = 1 => (scoring.out = "returned" /\ scoring.result = <<10>>)


(***************************************************************************)
(* Claims about the primary face (specification SpecPrimary)               *)
(***************************************************************************)

\* C24: the primary face is a detection that maximises confidence times face
\* area among the frame's detections, in FaceDetector.get_primary_face and in
\* Frame.primary_face alike, and it is none exactly when the frame has no
\* detections.
C24_PrimaryMaximisesConfidenceTimesArea ==
  primary.pc = "done" =>
    /\ primary.result = 0 <=> primary.faces = <<>>
    /\ primary.result # 0 =>
         \A j \in 1..Len(primary.faces) :
           primary.faces[j].confidence * primary.faces[j].face_size
             <= primary.faces[primary.result].confidence
                  * primary.faces[primary.result].face_size


\* The members of a cluster that no other member beats on its own combined
\* score; candidate k is frame sorted[k].
HighestInCluster(sc, sorted, members) ==
    {k \in members : \A m \in members : sc[sorted[m]] <= sc[sorted[k]]}

\* The representative lists that take, from each non-empty cluster c..nc-1 in
\* turn, a member with the highest combined score.
RECURSIVE HighestRepresentatives(_, _, _, _, _, _)
HighestRepresentatives(sc, sorted, labels, cc, nc, c) ==
    IF c >= nc THEN {<<>>}
    ELSE LET members == {k \in 1..cc : labels[k] = c}
             rest == HighestRepresentatives(sc, sorted, labels, cc, nc, c + 1)
         IN  IF members = {} THEN rest
             ELSE {<<sorted[k]>> \o r :
                     k \in HighestInCluster(sc, sorted, members), r \in rest}

\* C25: on the clustering path the selection consists, for some assignment of
\* the top-2*count candidates to clusters, of a highest-scoring member of each
\* non-empty cluster, followed when these are fewer than count by the unused
\* candidates in descending score order.
C25_RepresentativeHasHighestScore ==
    (selection.pc = "done" /\ selection.path \in {"clustering", "clustering_fill"})
    => LET n == selection.n
           count == selection.count
           sc == total_scores(selection.quality, selection.diversity,
                              selection.weight, n)
           sorted == sorted_indices(sc, n)
           cc == Min(n, count * 2)
       IN  \E labels \in [1..cc -> 0..(count - 1)] :
             \E reps \in HighestRepresentatives(sc, sorted, labels, cc, count, 0) :
               selection.result = Prefix(fill_loop(reps, sorted, cc, count), count)


\* C26: at most one thread is executing the worker's target function at any
\* time: start() launches no task while an earlier task of the same worker is
\* alive, whatever the worker's status.
C26_OneTaskThreadAlive ==
    Cardinality({t \in Threads : IsAlive(t)}) <= 1


\* is_finished
is_finished == w.status \in {"COMPLETED", "CANCELLED", "ERROR"}

\* C27: once cancel() has been accepted on a RUNNING worker, the worker
\* eventually reaches a finished status (CANCELLED, COMPLETED or ERROR), also
\* when the join times out and cancel() returns False.
C27_CancelledWorkerFinishes ==
    (caller.pc = "cancel_set") ~> is_finished


\* C28: when a run is refused at start_processing because the VideoFile is
\* PROCESSING under another run, the VideoFile is left as it is, valid and in
\* PROCESSING, so that the run in progress can finish with COMPLETED.
C28_RefusedRunLeavesVideoFile ==
    [][\A q \in Runs :
           (/\ run[q].pc = "opened"
            /\ run'[q].pc = "failed"
            /\ video.status = "PROCESSING"
            /\ \E r \in Runs \ {q} : InProgress(r))
               => (video'.status = "PROCESSING" /\ video'.is_valid)]_vars


\* C29: for every interval > 0, also one shorter than a frame period, a run
\* of extract_frames yields at most total_frames frames, and each frame it
\* yields has a larger index than the one before, so none is yielded twice.
C29_YieldsEachIndexOnce ==
    [][/\ sampling'.pc # "idle" => sampling'.count <= sampling'.total
       /\ (sampling.count > 0 /\ sampling'.count > sampling.count)
              => sampling'.last > sampling.last]_vars


(***************************************************************************)
(* More claims about the progress channel (specification SpecProgressFair) *)
(***************************************************************************)

Pending(k) == \E j \in 1..Len(progress.queue) : progress.queue[j] = k

Delivered(k) == \E j \in 1..Len(progress.history) : progress.history[j] = k

\* C30: an update the task reports after a pause() followed by a resume() is
\* eventually delivered to on_progress as long as the worker stays
\* RUNNING: the monitor that drains the progress queue is still running.
C30_UpdatesDeliveredAfterResume ==
    \A k \in 1..MaxReports :
        (progress.resumed /\ k > progress.resumed_at /\ Pending(k))
            ~> (Delivered(k) \/ progress.status # "RUNNING")

====
